---- MODULE Spec2Model ----
(***************************************************************************)
(* Model of buddy's render module (src/render/mod.rs): the activation of   *)
(* the GTK application (signal registration, presentation, screen          *)
(* resolution, first sprite load, bounds check, installation of the two    *)
(* timeouts and of the click gesture) and the three callbacks that run     *)
(* afterwards (reload tick, movement tick, click).                         *)
(*                                                                         *)
(* The sub-modules gif, helpers and state are not part of the sources at   *)
(* hand; the operators LoadAnimations, SwitchAnimation, NotState,          *)
(* InputRegion and AdvanceFrame model them from their specification.       *)
(*                                                                         *)
(* Coordinates are i32 in the program (f64 for the child position, which   *)
(* only ever holds integral values: an i32 start moved by +-10 or set to   *)
(* screen_width / -width).  The model draws them from ranges in which no   *)
(* i32 sum overflows, so mathematical integers compute what the code does. *)
(***************************************************************************)
EXTENDS Integers, FiniteSets, Sequences, TLC

(***************************************************************************)
(* Bounds of the model.                                                    *)
(***************************************************************************)
\* signals counted since the last swap of the flag (cap of the ghost counter)
MaxPending == 2
\* number of distinct sprite sets the sprite directory can hold over time
NumSpriteSets == 2
\* frames per animation sequence
FramesPerSeq == 2
\* geometry of the small display and of the character
ScreenW == 30
ScreenH == 20
CharW == 10
CharH == 10

(***************************************************************************)
(* Program constants.                                                      *)
(***************************************************************************)
\* pixels moved per movement tick (the literal 10.0)
Step == 10
\* fastrand::u8(0..=100)
MaxDraw == 100

Draws == 0..MaxDraw

States == {"Idle", "Running", "Click"}

\* values of onclick_event_chance (u8) the model runs with
Chances == {0, 30, 100}

\* starting coordinates on the small display: two inside (the second off
\* the top row), one touching the right edge, one touching the bottom edge,
\* and one beyond each of the four edges
Placements ==
    { <<5, 0>>,
      <<5, 5>>,
      <<ScreenW - CharW, 0>>,
      <<5, ScreenH - CharH>>,
      <<ScreenW - CharW + 5, 0>>,
      <<-5, 0>>,
      <<5, ScreenH - CharH + 5>>,
      <<5, -5>> }

Setup(px, py, l, d, a, c, sw, sh, w, h) ==
    [x |-> px, y |-> py, left |-> l, debug |-> d, automatic_reload |-> a,
     onclick_event_chance |-> c, sw |-> sw, sh |-> sh, w |-> w, h |-> h]

\* every direction, debug override, reload mode and click chance, started
\* inside the small display
BehaviourSetups ==
    { Setup(5, 0, l, d, a, c, ScreenW, ScreenH, CharW, CharH) :
        l \in BOOLEAN, d \in BOOLEAN, a \in BOOLEAN, c \in Chances }

\* every placement, direction and debug override on the small display
PlacementSetups ==
    { Setup(p[1], p[2], l, d, FALSE, 30, ScreenW, ScreenH, CharW, CharH) :
        p \in Placements, l \in BOOLEAN, d \in BOOLEAN }

\* the configuration of the wraparound examples: a display 1000 wide, a
\* character 50 wide, both travel directions
ExampleSetups ==
    { Setup(5, 0, l, FALSE, FALSE, 30, 1000, 100, 50, 50) : l \in BOOLEAN }

\* one placement inside the small display, every click chance
ClickSetups ==
    { Setup(5, 0, FALSE, FALSE, FALSE, c, ScreenW, ScreenH, CharW, CharH) :
        c \in Chances }

\* inside the small display: both directions, both reload modes
LiveSetups ==
    { Setup(5, 0, l, FALSE, a, 30, ScreenW, ScreenH, CharW, CharH) :
        l \in BOOLEAN, a \in BOOLEAN }

\* inside the small display, both directions, click chances from 100 up
ChanceSetups ==
    { Setup(5, 0, l, FALSE, FALSE, c, ScreenW, ScreenH, CharW, CharH) :
        l \in BOOLEAN, c \in {MaxDraw, MaxDraw + 1, 255} }

Setups == BehaviourSetups \cup PlacementSetups \cup ExampleSetups

SpriteSets == 1..NumSpriteSets
\* GifPaintable::default(): no animation loaded yet
NoSprites == 0
\* what one call of load_animations can return: Ok with the sprite set it
\* decoded from the sprite directory, or Err
LoadErr == [ok |-> FALSE, set |-> NoSprites]
LoadResults == { [ok |-> TRUE, set |-> n] : n \in SpriteSets } \cup {LoadErr}

\* what is recorded of a callback
Ran(cb, attempts, warned) ==
    [cb |-> cb, attempts |-> attempts, warned |-> warned]

NoRegion == [x |-> 0, y |-> 0, w |-> 0, h |-> 0, set |-> FALSE]

VARIABLES
    config,          \* Config, destructured at lines 68-78
    screen_width,    \* the display's resolution (read at line 98)
    screen_height,
    width,           \* infer_size's result (line 103)
    height,
    pc,              \* position of activate
    err,             \* the BuddyError activate returned, "" when none
    exit_code,       \* the status the process exited with, -1 while it runs
    presented,       \* window.present() was called
    registered,      \* the signals whose handler is installed
    reload_sprites,  \* the AtomicBool shared with the signal handlers
    pending,         \* signals delivered since the flag was last swapped
    sprites,         \* the sprite set GifPaintable holds
    state,           \* GifPaintable's behavioural state
    frame,           \* GifPaintable's frame index
    child_x,         \* position of the character in the Fixed container
    child_y,
    region,          \* the window's input region
    reload_timer,    \* source of the reload timeout
    move_timer,      \* source of the movement timeout
    gesture,         \* the click gesture is attached to the character
    last             \* the callback that ran last: which one, the calls of
                     \* load_animations it made, whether it printed the
                     \* warning

vars == <<config, screen_width, screen_height, width, height, pc, err,
          exit_code, presented, registered, reload_sprites, pending, sprites,
          state, frame, child_x, child_y, region, reload_timer, move_timer,
          gesture, last>>

geometry == <<config, screen_width, screen_height, width, height>>
animation == <<sprites, state, frame>>
placement == <<child_x, child_y, region>>
installed == <<reload_timer, move_timer, gesture, last>>

\* the state before activate runs, for a configuration among S
InitOf(S) ==
    /\ \E s \in S :
         /\ config = [x |-> s.x, y |-> s.y, left |-> s.left, debug |-> s.debug,
                      automatic_reload |-> s.automatic_reload,
                      onclick_event_chance |-> s.onclick_event_chance]
         /\ screen_width = s.sw
         /\ screen_height = s.sh
         /\ width = s.w
         /\ height = s.h
    /\ pc = "start"
    /\ err = ""
    /\ exit_code = -1
    /\ presented = FALSE
    /\ registered = {}
    /\ reload_sprites = FALSE
    /\ pending = 0
    /\ sprites = NoSprites
    /\ state = "Idle"
    /\ frame = 0
    /\ child_x = 0
    /\ child_y = 0
    /\ region = NoRegion
    /\ reload_timer = "none"
    /\ move_timer = "none"
    /\ gesture = FALSE
    /\ last = Ran("none", 0, FALSE)

Init == InitOf(Setups)


(***************************************************************************)
(* The sub-modules the render module calls, from their specification.      *)
(***************************************************************************)
\* state.rs, impl Not for State: Idle <-> Running, Click is left as it is
NotState(s) ==
    CASE s = "Idle" -> "Running"
      [] s = "Running" -> "Idle"
      [] OTHER -> s

\* gif.rs, load_animations: the sprite set is replaced only when the whole
\* load succeeds; res is what the sprite directory yields
LoadAnimations(cur, res) == IF res.ok THEN res.set ELSE cur

\* gif.rs, switch_animation: a new state replaces the current one and
\* restarts the animation at frame 0; the same state changes nothing
SwitchAnimation(new) ==
    IF new # state
    THEN /\ state' = new
         /\ frame' = 0
    ELSE UNCHANGED <<state, frame>>

\* helpers.rs, update_input_region: the rectangle that accepts pointer input
InputRegion(w, h, x, y) == [x |-> x, y |-> y, w |-> w, h |-> h, set |-> TRUE]

\* gif.rs, the paintable's current image
CurrentFrame == <<sprites, state, frame>>

(***************************************************************************)
(* activate, lines 54-207.                                                 *)
(***************************************************************************)
\* the error printed and the process exited with status 0
FailExitZero(e) ==
    /\ pc' = "exited"
    /\ err' = e
    /\ exit_code' = 0

\* an Err returned by activate: render_character prints it and exits 1
Fail(e) ==
    /\ pc' = "exited"
    /\ err' = e
    /\ exit_code' = 1

\* signal_hook::flag::register for one signal
Register(sig, at, next) ==
    /\ pc = at
    /\ \/ /\ registered' = registered \cup {sig}
          /\ pc' = next
          /\ UNCHANGED <<err, exit_code>>
       \/ /\ Fail("SignalRegistrationFailure")
          /\ UNCHANGED registered
    /\ UNCHANGED <<geometry, presented, reload_sprites, pending, animation,
                   placement, installed>>

RegisterUsr1 == Register("SIGUSR1", "start", "reg1")

RegisterUsr2 == Register("SIGUSR2", "reg1", "reg2")

\* the window created and anchored, its presentation left for later
PresentDeferred ==
    /\ pc = "reg2"
    /\ pc' = "presented"
    /\ UNCHANGED <<geometry, err, exit_code, presented, registered,
                   reload_sprites, pending, animation, placement, installed>>

\* the window is created, anchored and presented
Present ==
    /\ pc = "reg2"
    /\ presented' = TRUE
    /\ pc' = "presented"
    /\ UNCHANGED <<geometry, err, exit_code, registered, reload_sprites,
                   pending, animation, placement, installed>>

\* screen_resolution(&window): Some((screen_width, screen_height)) or None
ScreenResolution ==
    /\ pc = "presented"
    /\ \/ /\ pc' = "resolved"
          /\ UNCHANGED <<err, exit_code>>
       \/ Fail("NoScreenResolution")
    /\ UNCHANGED <<geometry, presented, registered, reload_sprites, pending,
                   animation, placement, installed>>

\* the first load_animations; its failure is returned with `?`
FirstLoad ==
    /\ pc = "resolved"
    /\ \E res \in LoadResults :
         /\ sprites' = LoadAnimations(sprites, res)
         /\ IF res.ok
            THEN /\ pc' = "loaded"
                 /\ UNCHANGED <<err, exit_code>>
            ELSE Fail("LoadFailure")
    /\ UNCHANGED <<geometry, presented, registered, reload_sprites, pending,
                   state, frame, placement, installed>>

\* the right and bottom edges tested with `>` instead of `>=`
OutOfBoundsEdgeFree(x, y, w, h, sw, sh) ==
    (x + w) > sw \/ x < 0 \/ (y + h) > sh \/ y < 0

\* the condition of line 106 without the debug flag
OutOfBounds(x, y, w, h, sw, sh) ==
    (x + w) >= sw \/ x < 0 \/ (y + h) >= sh \/ y < 0

\* the check made whatever the debug flag says
BoundsRejectedAlways(debug, x, y, w, h, sw, sh) ==
    OutOfBounds(x, y, w, h, sw, sh)

\* the condition of line 106
BoundsRejected(debug, x, y, w, h, sw, sh) ==
    ~debug /\ OutOfBounds(x, y, w, h, sw, sh)

\* check for valid starting coordinates
BoundsCheck ==
    /\ pc = "loaded"
    /\ IF BoundsRejected(config.debug, config.x, config.y, width, height,
                         screen_width, screen_height)
       THEN Fail("CoordinatesOutOfBounds")
       ELSE /\ pc' = "checked"
            /\ UNCHANGED <<err, exit_code>>
    /\ UNCHANGED <<geometry, presented, registered, reload_sprites, pending,
                   animation, placement, installed>>

\* the character is put at (x, y), the input region is set, the two
\* timeouts and the click gesture are installed, activate returns Ok
Install ==
    /\ pc = "checked"
    /\ child_x' = config.x
    /\ child_y' = config.y
    /\ region' = InputRegion(width, height, config.x, 0)
    /\ reload_timer' = "scheduled"
    /\ move_timer' = "scheduled"
    /\ gesture' = TRUE
    /\ pc' = "running"
    /\ UNCHANGED <<geometry, err, exit_code, presented, registered,
                   reload_sprites, pending, animation, last>>

(***************************************************************************)
(* The signal handlers: SIGUSR1 and SIGUSR2 store true into the flag.      *)
(***************************************************************************)
\* SIGUSR2 registered on a flag of its own, which no tick reads
SignalOwnFlag(sig) ==
    /\ sig \in registered
    /\ pc # "exited"
    /\ pending < MaxPending
    /\ reload_sprites' = (reload_sprites \/ sig = "SIGUSR1")
    /\ pending' = pending + 1
    /\ UNCHANGED <<geometry, pc, err, exit_code, presented, registered,
                   animation, placement, installed>>

Signal(sig) ==
    /\ sig \in registered
    /\ pc # "exited"
    /\ pending < MaxPending
    /\ reload_sprites' = TRUE
    /\ pending' = pending + 1
    /\ UNCHANGED <<geometry, pc, err, exit_code, presented, registered,
                   animation, placement, installed>>

SignalUsr1 == Signal("SIGUSR1")

SignalUsr2 == Signal("SIGUSR2")

(***************************************************************************)
(* The callbacks.                                                          *)
(***************************************************************************)
\* glib: ControlFlow::from(bool)
ControlFlowFrom(b) == IF b THEN "Continue" ELSE "Break"

\* glib: a timeout source is kept while its callback returns Continue
TimerAfter(flow) == IF flow = "Continue" THEN "scheduled" ELSE "removed"

\* the flag read without being cleared
SwapSkipped(auto) == FALSE

\* line 141: automatic_reload || reload_sprites.swap(false, Relaxed); the
\* swap is not evaluated when automatic_reload is true
SwapEvaluated(auto) == ~auto

\* the reload decided by the flag alone
ShouldReloadOnFlag(auto, flag) == flag

\* line 141: the condition of the reload
ShouldReload(auto, flag) == auto \/ flag

\* an Err arm that drops the sprite set
OnReloadErrorDrop(sp) == NoSprites

\* lines 145-147: the Err arm prints the warning and touches nothing
OnReloadError(sp) == sp

\* a callback that returns whether the load succeeded
ReloadTickReturnLoaded(ok) == ControlFlowFrom(ok)

\* line 149: what the reload callback returns, whatever the load did
ReloadTickReturn(ok) == ControlFlowFrom(TRUE)

\* the reload timeout, lines 138-151
ReloadTick ==
    /\ pc = "running"
    /\ reload_timer = "scheduled"
    /\ LET auto == config.automatic_reload
           reload == ShouldReload(auto, reload_sprites)
       IN /\ reload_sprites' =
                IF SwapEvaluated(auto) THEN FALSE ELSE reload_sprites
          /\ pending' = IF SwapEvaluated(auto) THEN 0 ELSE pending
          /\ \E res \in IF reload THEN LoadResults ELSE {LoadErr} :
               /\ sprites' =
                    IF reload
                    THEN IF res.ok
                         THEN LoadAnimations(sprites, res)
                         ELSE OnReloadError(LoadAnimations(sprites, res))
                    ELSE sprites
               /\ last' = Ran("reload", IF reload THEN 1 ELSE 0,
                               reload /\ ~res.ok)
               /\ reload_timer' = TimerAfter(ReloadTickReturn(~reload \/ res.ok))
    /\ UNCHANGED <<geometry, pc, err, exit_code, presented, registered, state,
                   frame, placement, move_timer, gesture>>

\* a guard that lets every state but Click move
MovesUnlessClick(s) == s # "Click"

\* line 159: the character moves only while it is running
Moves(s) == s = "Running"

\* the character stopped at the edge it reaches instead of wrapping
NextXStay(x, left, w, sw) ==
    IF left
    THEN IF x - Step <= -w THEN x ELSE x - Step
    ELSE IF x + Step >= sw THEN x ELSE x + Step

\* the move made without any wraparound
NextXNoWrap(x, left, w, sw) == IF left THEN x - Step ELSE x + Step

\* the left wrap tested with `<` instead of `<=`
NextXLeftStrict(x, left, w, sw) ==
    IF left
    THEN IF x - Step < -w THEN sw ELSE x - Step
    ELSE IF x + Step >= sw THEN -w ELSE x + Step

\* the right wrap tested with `>` instead of `>=`
NextXRightStrict(x, left, w, sw) ==
    IF left
    THEN IF x - Step <= -w THEN sw ELSE x - Step
    ELSE IF x + Step > sw THEN -w ELSE x + Step

\* lines 162-178: the next horizontal position
NextX(x, left, w, sw) ==
    IF left
    THEN IF x - Step <= -w THEN sw ELSE x - Step
    ELSE IF x + Step >= sw THEN -w ELSE x + Step

\* a movement tick that puts the character back to Idle when it wraps
MoveTickIdleOnWrap ==
    /\ pc = "running"
    /\ move_timer = "scheduled"
    /\ IF Moves(state)
       THEN LET x == NextX(child_x, config.left, width, screen_width)
            IN /\ child_x' = x
               /\ child_y' = child_y
               /\ region' = InputRegion(width, height, x, 0)
               /\ state' = IF x \in {screen_width, -width}
                            THEN "Idle"
                            ELSE state
       ELSE UNCHANGED <<placement, state>>
    /\ move_timer' = TimerAfter(ControlFlowFrom(TRUE))
    /\ last' = Ran("move", 0, FALSE)
    /\ UNCHANGED <<geometry, pc, err, exit_code, presented, registered,
                   reload_sprites, pending, sprites, frame,
                   reload_timer, gesture>>

\* the movement timeout, lines 156-185
MoveTick ==
    /\ pc = "running"
    /\ move_timer = "scheduled"
    /\ IF Moves(state)
       THEN LET x == NextX(child_x, config.left, width, screen_width)
            IN /\ child_x' = x
               /\ child_y' = child_y
               /\ region' = InputRegion(width, height, x, 0)
       ELSE UNCHANGED placement
    /\ move_timer' = TimerAfter(ControlFlowFrom(TRUE))
    /\ last' = Ran("move", 0, FALSE)
    /\ UNCHANGED <<geometry, pc, err, exit_code, presented, registered,
                   reload_sprites, pending, animation,
                   reload_timer, gesture>>

\* the draw compared with `<` instead of `<=`
ClickTargetStrict(s, r, t) ==
    IF s # "Click"
    THEN IF s = "Idle" /\ r < t THEN "Click" ELSE NotState(s)
    ELSE s

\* a click in Click that ends the reaction
ClickTargetEndsReaction(s, r, t) ==
    IF s # "Click"
    THEN IF s = "Idle" /\ r <= t THEN "Click" ELSE NotState(s)
    ELSE "Idle"

\* the toggle written without the negation
ClickTargetNoToggle(s, r, t) ==
    IF s # "Click"
    THEN IF s = "Idle" /\ r <= t THEN "Click" ELSE s
    ELSE s

\* lines 193-199: the state handed to switch_animation by a click in state
\* s with draw r and threshold t; s itself when the click is ignored
ClickTarget(s, r, t) ==
    IF s # "Click"
    THEN IF s = "Idle" /\ r <= t THEN "Click" ELSE NotState(s)
    ELSE s

\* the click with draw r, lines 190-202
ClickWith(r) ==
    /\ pc = "running"
    /\ gesture
    /\ SwitchAnimation(ClickTarget(state, r, config.onclick_event_chance))
    /\ last' = Ran("click", 0, FALSE)
    /\ UNCHANGED <<geometry, pc, err, exit_code, presented, registered,
                   reload_sprites, pending, sprites, placement,
                   reload_timer, move_timer, gesture>>

\* the draw taken from the whole range of u8
DrawsInWholeByte(s) == IF s = "Idle" THEN 0..255 ELSE {0}

\* line 194: `&&` evaluates fastrand::u8(0..=100) only in state Idle; in the
\* other states no draw is made and the handler does not depend on one
DrawsIn(s) == IF s = "Idle" THEN Draws ELSE {0}

Click == \E r \in DrawsIn(state) : ClickWith(r)

\* gif.rs: the paintable shows the next frame of the current sequence,
\* wrapping to frame 0 at its end
AdvanceFrame ==
    /\ pc = "running"
    /\ frame' = (frame + 1) % FramesPerSeq
    /\ UNCHANGED <<geometry, pc, err, exit_code, presented, registered,
                   reload_sprites, pending, sprites, state, placement, installed>>

Next ==
    \/ RegisterUsr1
    \/ RegisterUsr2
    \/ Present
    \/ ScreenResolution
    \/ FirstLoad
    \/ BoundsCheck
    \/ Install
    \/ SignalUsr1
    \/ SignalUsr2
    \/ ReloadTick
    \/ MoveTick
    \/ Click
    \/ AdvanceFrame

Spec == Init /\ [][Next]_vars

\* the program run while the main loop keeps dispatching both timeouts
InitLive == InitOf(LiveSetups)

SpecLive ==
    /\ InitLive
    /\ [][Next]_vars
    /\ WF_vars(ReloadTick)
    /\ WF_vars(MoveTick)

\* the program run with click chances of 100 and more
InitChance == InitOf(ChanceSetups)

SpecChance == InitChance /\ [][Next]_vars

\* the program run with the configurations that differ in the click chance
InitClick == InitOf(ClickSetups)

SpecClick == InitClick /\ [][Next]_vars

(***************************************************************************)
(* C1..C4: the click transition table and the movement tick.               *)
(***************************************************************************)
\* the transition table of the click event, as the specification gives it
ClickTable(s, r, t) ==
    CASE s = "Idle" /\ r <= t -> "Click"
      [] s = "Idle" /\ r > t -> "Running"
      [] s = "Running" -> "Idle"
      [] s = "Click" -> "Click"

\* every value of the u8 threshold onclick_event_chance
Thresholds == 0..255

\* C1: for every click, every draw r in 0..100 and every threshold, the
\* next behavioural state is Click from Idle when r <= threshold, Running
\* from Idle when r > threshold, Idle from Running, and Click stays Click.
\* The state the handler asks for agrees with the table for every state,
\* draw and threshold, and every click step ends in the state of the table
\* for every draw it can have been taken with.
C1_ClickTransitionTable ==
    /\ \A s \in States, r \in Draws, t \in Thresholds :
         ClickTarget(s, r, t) = ClickTable(s, r, t)
    /\ [][\A r \in Draws :
            ClickWith(r) =>
              state' = ClickTable(state, r, config.onclick_event_chance)]_vars

\* a click in Idle with threshold 30 drew above the threshold and started
\* the run
C1_Witness ==
    /\ last.cb = "click"
    /\ state = "Running"
    /\ config.onclick_event_chance = 30

\* C2: a movement tick in a state other than Running leaves the horizontal
\* offset, the vertical offset and the input region as they were.
C2_MoveTickNoOpUnlessRunning ==
    [][MoveTick /\ state # "Running" =>
         UNCHANGED <<child_x, child_y, region>>]_vars

\* a movement tick ran in Idle after the character had left its start
C2_Witness ==
    /\ last.cb = "move"
    /\ state = "Idle"
    /\ child_x # config.x

\* C3: a movement tick in Running with direction left sets the horizontal
\* offset to screen_width when x - 10 <= -width and to x - 10 otherwise;
\* with screen_width 1000 and width 50, x = -45 yields 1000, never -55.
C3_MoveLeftWraps ==
    [][MoveTick /\ state = "Running" /\ config.left =>
         /\ child_x' = IF child_x - 10 <= -width
                       THEN screen_width
                       ELSE child_x - 10
         /\ (screen_width = 1000 /\ width = 50 /\ child_x = -45 =>
               child_x' = 1000 /\ child_x' # -55)]_vars

\* on the display 1000 wide the character, 50 wide, has just wrapped from
\* the left edge to x = 1000
C3_Witness ==
    /\ last.cb = "move"
    /\ state = "Running"
    /\ config.left
    /\ screen_width = 1000
    /\ width = 50
    /\ child_x = 1000

\* C4: a movement tick in Running with direction right sets the horizontal
\* offset to -width when x + 10 >= screen_width and to x + 10 otherwise;
\* with screen_width 1000 and width 50, x = 995 yields -50.
C4_MoveRightWraps ==
    [][MoveTick /\ state = "Running" /\ ~config.left =>
         /\ child_x' = IF child_x + 10 >= screen_width
                       THEN -width
                       ELSE child_x + 10
         /\ (screen_width = 1000 /\ width = 50 /\ child_x = 995 =>
               child_x' = -50)]_vars

\* on the display 1000 wide the character, 50 wide, has just wrapped from
\* the right edge to x = -50
C4_Witness ==
    /\ last.cb = "move"
    /\ state = "Running"
    /\ ~config.left
    /\ screen_width = 1000
    /\ width = 50
    /\ child_x = -50

(***************************************************************************)
(* C5..C8: the reload tick.                                                *)
(***************************************************************************)
\* C5 as stated: a reload tick that finds the flag set makes exactly one
\* reload attempt and the flag reads false right after the tick.
C5_Original ==
    [][ReloadTick /\ reload_sprites =>
         last'.attempts = 1 /\ ~reload_sprites']_vars

\* C5, amended: a reload tick that finds the flag set (by one signal or by
\* several) makes exactly one reload attempt; right after the tick the flag
\* reads false when automatic_reload is false, and is still set when
\* automatic_reload is true, where the tick never swaps it.
C5_ReloadFlagConsumedOnce ==
    [][ReloadTick /\ reload_sprites =>
         /\ last'.attempts = 1
         /\ IF config.automatic_reload
            THEN reload_sprites' /\ pending' = pending
            ELSE ~reload_sprites' /\ pending' = 0]_vars

\* without automatic reload, a reload tick has consumed the flag and made
\* its one attempt
C5_Witness ==
    /\ ~config.automatic_reload
    /\ last.cb = "reload"
    /\ last.attempts = 1
    /\ ~reload_sprites
    /\ pending = 0

\* C6: a reload attempt that fails leaves the active sprite set, and so the
\* frame current_frame() returns, as it was before the attempt.
C6_FailedReloadKeepsSprites ==
    [][ReloadTick /\ last'.warned =>
         sprites' = sprites /\ CurrentFrame' = CurrentFrame]_vars

\* a reload tick failed and the second sprite set is still the active one
C6_Witness ==
    /\ last.cb = "reload"
    /\ last.warned
    /\ sprites = NumSpriteSets
    /\ frame > 0

\* C7: once installed, the reload tick and the movement tick stay scheduled
\* after every event, failed reload attempts included, and both can fire
\* again.
C7_SchedulerNeverStops ==
    pc = "running" =>
      /\ reload_timer = "scheduled"
      /\ move_timer = "scheduled"
      /\ ENABLED ReloadTick
      /\ ENABLED MoveTick

\* a reload tick has failed and both timeouts are still scheduled
C7_Witness ==
    /\ pc = "running"
    /\ last.cb = "reload"
    /\ last.warned
    /\ reload_timer = "scheduled"
    /\ move_timer = "scheduled"

\* C8: with automatic_reload true every reload tick attempts a reload,
\* whatever the flag holds.
C8_AutomaticReloadEveryTick ==
    [][ReloadTick /\ config.automatic_reload => last'.attempts = 1]_vars

\* with automatic reload a tick made an attempt though no signal ever came
C8_Witness ==
    /\ config.automatic_reload
    /\ last.cb = "reload"
    /\ last.attempts = 1
    /\ ~reload_sprites
    /\ pending = 0

(***************************************************************************)
(* C9, C10: the bounds check of the starting placement.                    *)
(***************************************************************************)
\* the out-of-bounds placement as C9 words it
PlacedOutOfBounds ==
    \/ config.x + width >= screen_width
    \/ config.x < 0
    \/ config.y + height >= screen_height
    \/ config.y < 0

\* C9: the bounds check of an out-of-bounds placement fails with
\* CoordinatesOutOfBounds when the debug override is false and raises no
\* error when it is true.
C9_OutOfBoundsUnlessDebug ==
    [][BoundsCheck /\ PlacedOutOfBounds =>
         IF config.debug
         THEN pc' = "checked" /\ err' = "" /\ exit_code' = -1
         ELSE pc' = "exited" /\ err' = "CoordinatesOutOfBounds"
              /\ exit_code' = 1]_vars

\* a start beyond the right edge was let through by the debug override and
\* the character was installed there
C9_Witness ==
    /\ config.debug
    /\ config.x + width > screen_width
    /\ pc = "running"
    /\ err = ""
    /\ child_x = config.x

\* every column and every row of the starting rectangle lies on the screen
FitsOnScreen ==
    /\ \A c \in config.x..(config.x + width - 1) : 0 <= c /\ c < screen_width
    /\ \A r \in config.y..(config.y + height - 1) : 0 <= r /\ r < screen_height

\* C10 as stated: with the debug override false the bounds check accepts
\* the placement exactly when the starting rectangle fits within
\* [0, screen_width) x [0, screen_height).
C10_Original ==
    [][BoundsCheck /\ ~config.debug =>
         ((pc' = "checked") <=> FitsOnScreen)]_vars

\* C10, amended: with the debug override false the bounds check accepts the
\* placement exactly when x >= 0, y >= 0, x + width < screen_width and
\* y + height < screen_height; a rectangle that touches the right or the
\* bottom edge (x + width = screen_width or y + height = screen_height) is
\* rejected with CoordinatesOutOfBounds.
C10_BoundsCheckAccepts ==
    [][BoundsCheck /\ ~config.debug =>
         /\ (pc' = "checked") <=>
              /\ 0 <= config.x
              /\ 0 <= config.y
              /\ config.x + width < screen_width
              /\ config.y + height < screen_height
         /\ (config.x + width = screen_width
               \/ config.y + height = screen_height) =>
              pc' = "exited" /\ err' = "CoordinatesOutOfBounds"]_vars

\* a rectangle that fits and touches the right edge was rejected
C10_Witness ==
    /\ ~config.debug
    /\ FitsOnScreen
    /\ config.x + width = screen_width
    /\ pc = "exited"
    /\ err = "CoordinatesOutOfBounds"

(***************************************************************************)
(* C11..C13: the order of startup, its failures, the input region.         *)
(***************************************************************************)
\* C11 as stated: in no execution is the window presented and the placement
\* then rejected with CoordinatesOutOfBounds.
C11_Original == ~(presented /\ err = "CoordinatesOutOfBounds")

\* C11, amended: the bounds check runs after the window was presented (the
\* screen resolution is read from the presented window) and before the
\* character is placed, the input region set and the callbacks installed:
\* whenever the placement is rejected with CoordinatesOutOfBounds the window
\* has been presented and nothing has been installed.
C11_BoundsCheckAfterPresent ==
    /\ pc \in {"loaded", "checked", "running"} => presented
    /\ err = "CoordinatesOutOfBounds" =>
         /\ presented
         /\ region = NoRegion
         /\ reload_timer = "none"
         /\ move_timer = "none"
         /\ ~gesture

\* a placement beyond the right edge was rejected after the window had been
\* presented
C11_Witness ==
    /\ err = "CoordinatesOutOfBounds"
    /\ presented
    /\ config.x + width > screen_width
    /\ region = NoRegion

\* the four errors activate can return
StartupErrors ==
    {"SignalRegistrationFailure", "NoScreenResolution", "LoadFailure",
     "CoordinatesOutOfBounds"}

\* C12: each startup failure is fatal: activate returns the error before
\* the reload tick, the movement tick or the click handler is installed, the
\* process exits with a non-zero status, and no tick or click is processed
\* afterwards.
C12_StartupFailuresFatal ==
    /\ err = "" <=> pc # "exited"
    /\ err # "" =>
         /\ err \in StartupErrors
         /\ exit_code # 0
         /\ exit_code # -1
         /\ reload_timer = "none"
         /\ move_timer = "none"
         /\ ~gesture
         /\ last.cb = "none"
         /\ ~ENABLED ReloadTick
         /\ ~ENABLED MoveTick
         /\ ~ENABLED Click

\* the registration of SIGUSR2 failed after that of SIGUSR1 had succeeded,
\* and the process exited with status 1
C12_Witness ==
    /\ err = "SignalRegistrationFailure"
    /\ registered = {"SIGUSR1"}
    /\ pc = "exited"
    /\ exit_code = 1

\* C13: after startup and after every movement tick the input region is the
\* rectangle of the character: its width and height, its horizontal offset
\* and its vertical offset.
C13_Original ==
    pc = "running" =>
      region = [x |-> child_x, y |-> child_y, w |-> width, h |-> height,
                set |-> TRUE]

(***************************************************************************)
(* C14, C15: what changes the behavioural state and the frame cursor.      *)
(***************************************************************************)
\* C14: the behavioural state is Idle when startup ends and is changed by
\* click events only: no movement tick and no reload tick, failed or not,
\* changes it.
C14_StateChangedByClicksOnly ==
    /\ state = "Idle"
    /\ [][/\ (pc' # "running" \/ pc # "running" => state' = "Idle")
          /\ (state' # state =>
                /\ last'.cb = "click"
                /\ ~ReloadTick
                /\ ~MoveTick)]_vars

\* the character is running, has wrapped to the far edge, and a reload tick
\* has made an attempt since
C14_Witness ==
    /\ last.cb = "reload"
    /\ last.attempts = 1
    /\ state = "Running"
    /\ child_x \in {screen_width, -width}

\* C15: the clicks that change the behavioural state are exactly those that
\* reset the frame cursor to frame 0: outside Click every click asks for a
\* state other than the current one, whatever the draw, and a click in Click
\* leaves state and frame index as they are.
C15_ClickResetsCursorOnSwitch ==
    [][\A r \in Draws :
         ClickWith(r) =>
           /\ state # "Click" =>
                /\ ClickTarget(state, r, config.onclick_event_chance) # state
                /\ state' # state
                /\ frame' = 0
           /\ state = "Click" => state' = state /\ frame' = frame]_vars

\* a click has just been handled, the state is Click and the animation is
\* past frame 0
C15_Witness ==
    /\ last.cb = "click"
    /\ state = "Click"
    /\ frame > 0

(***************************************************************************)
(* C16..C18: signals against reload ticks, the Click state, the wraparound *)
(* in the long run.                                                        *)
(***************************************************************************)
\* C16: without automatic reload, under every interleaving of SIGUSR1 and
\* SIGUSR2 with reload ticks, a reload tick attempts a reload exactly when
\* a signal arrived since the previous tick's swap, every signal sets the
\* flag, and every signal is followed by a tick that attempts a reload and
\* consumes the request.
C16_NoRequestLostOrInvented ==
    /\ [][/\ (SignalUsr1 \/ SignalUsr2 => reload_sprites')
          /\ (ReloadTick /\ ~config.automatic_reload =>
                /\ (last'.attempts = 1 <=> pending > 0)
                /\ (reload_sprites <=> pending > 0)
                /\ ~reload_sprites'
                /\ pending' = 0)]_vars
    /\ (pc = "running" /\ ~config.automatic_reload /\ pending > 0)
         ~> (pending = 0 /\ last.cb = "reload" /\ last.attempts = 1)

\* both signals were registered, the signals delivered were consumed by a
\* reload tick that made its attempt, and one more has arrived since
C16_Witness ==
    /\ ~config.automatic_reload
    /\ registered = {"SIGUSR1", "SIGUSR2"}
    /\ last.cb = "reload"
    /\ last.attempts = 1
    /\ pending = 1
    /\ reload_sprites

\* C17: once the behavioural state is Click it stays Click through every
\* later click, movement tick and reload tick, and the horizontal offset
\* does not change any more.
C17_ClickAbsorbing ==
    [][state = "Click" => state' = "Click" /\ child_x' = child_x]_vars

\* the character ran, was stopped, entered Click, and a movement tick has
\* run since
C17_Witness ==
    /\ state = "Click"
    /\ last.cb = "move"
    /\ child_x # config.x

\* the offset at which the character enters again after a wrap
WrapEntry == IF config.left THEN screen_width ELSE -width

\* C18: a movement tick in Running either wraps to the entry edge or moves
\* the offset by 10 towards the exit edge, and if the state stays Running
\* while movement ticks keep firing the character is at the entry edge
\* again and again, away from it in between.
C18_WrapsForever ==
    /\ [][MoveTick /\ state = "Running" =>
            \/ child_x' = WrapEntry
            \/ child_x' = IF config.left THEN child_x - 10 ELSE child_x + 10]_vars
    /\ <>[](pc = "running" /\ state = "Running") =>
         /\ []<>(child_x = WrapEntry)
         /\ []<>(child_x # WrapEntry)

\* the running character has wrapped to its entry edge
C18_Witness ==
    /\ state = "Running"
    /\ last.cb = "move"
    /\ child_x = WrapEntry
    /\ child_x # config.x

(***************************************************************************)
(* C19, C20: where the character can be.                                   *)
(***************************************************************************)
\* C19: when startup passed the bounds check with the debug override false,
\* the horizontal offset stays within -width..screen_width in every state,
\* for both directions.
C19_OffsetWithinWrapRange ==
    pc = "running" /\ ~config.debug =>
      -width <= child_x /\ child_x <= screen_width

\* started inside the screen without the debug override, the character
\* going right has wrapped to -width
C19_Witness ==
    /\ pc = "running"
    /\ ~config.debug
    /\ ~config.left
    /\ last.cb = "move"
    /\ child_x = -width

\* C20: with a click chance of 100 or more every draw in 0..100 is within
\* the threshold, every click in Idle enters Click, the behavioural state
\* is never Running and the horizontal offset keeps its starting value.
C20_RunningUnreachable ==
    config.onclick_event_chance >= 100 =>
      /\ \A r \in Draws :
           /\ r <= config.onclick_event_chance
           /\ ClickTarget("Idle", r, config.onclick_event_chance) = "Click"
      /\ state \in {"Idle", "Click"}
      /\ pc = "running" => child_x = config.x

\* with a click chance of 255 a click has put the character into Click and
\* a movement tick has run since
C20_Witness ==
    /\ config.onclick_event_chance = 255
    /\ state = "Click"
    /\ last.cb = "move"
    /\ child_x = config.x

====
